---- MODULE Spec2Model ----
(***************************************************************************)
(* Model of src/main.py: the discovery-to-digest pipeline.                 *)
(*                                                                         *)
(*   main():  search_repos -> for each of repos[:TOP_N]:                   *)
(*                fetch_readme -> (skip) -> summarize_with_gemini          *)
(*                -> compose message -> send_to_discord                    *)
(*                                                                         *)
(* Texts (README, summary, description) are sequences of one-character     *)
(* strings, so that len(), slicing and strip() are computed as Python      *)
(* computes them.  A Python "str | None" value is a record                 *)
(* [none, text].  The answers of the three remote services are the inputs  *)
(* of a run: the answers of the GitHub API and of Gemini are fixed when    *)
(* the run starts (searchResp, docResp, genResp), the answer of the        *)
(* webhook is chosen when the request is made.                             *)
(***************************************************************************)
EXTENDS Integers, Sequences, FiniteSets, TLC

\* ------------------------------------------------------------------ bounds
\* longest result list the discovery provider answers with
MaxItems == 3

\* ------------------------------------------------------- program constants
TOP_N == 2
per_page == 5
max_chars == 5000
discord_limit == 1900

\* ------------------------------------------------------------ Python values
None == [none |-> TRUE, text |-> <<>>]
Str(t) == [none |-> FALSE, text |-> t]
\* Python truthiness of a "str | None" value
Truthy(v) == (~v.none) /\ Len(v.text) > 0
\* "v or ''"
OrEmpty(v) == IF Truthy(v) THEN v.text ELSE <<>>

Min(a, b) == IF a <= b THEN a ELSE b

Whitespace == {" ", "\n", "\t"}

\* str.strip(): from the first to the last character that is not whitespace
strip(s) ==
  IF \A k \in 1..Len(s) : s[k] \in Whitespace THEN <<>>
  ELSE LET first == CHOOSE k \in 1..Len(s) :
                      s[k] \notin Whitespace /\ \A j \in 1..(k - 1) : s[j] \in Whitespace
           last == CHOOSE k \in 1..Len(s) :
                      s[k] \notin Whitespace /\ \A j \in (k + 1)..Len(s) : s[j] \in Whitespace
       IN  SubSeq(s, first, last)

\* s[:n]
Prefix(s, n) == SubSeq(s, 1, Min(n, Len(s)))

\* str.split(sep)
split(s, sep) ==
  LET at == { k \in 1..Len(s) : s[k] = sep }
      n == Cardinality(at)
      \* position of the j-th separator; 0 and Len(s) + 1 close the ends
      pos(j) == IF j = 0 THEN 0
                ELSE IF j = n + 1 THEN Len(s) + 1
                ELSE CHOOSE p \in at : Cardinality({ q \in at : q <= p }) = j
  IN  [j \in 1..(n + 1) |-> SubSeq(s, pos(j - 1) + 1, pos(j) - 1)]

\* sep.join(parts)
RECURSIVE join(_, _)
join(parts, sep) ==
  IF Len(parts) = 0 THEN <<>>
  ELSE IF Len(parts) = 1 THEN parts[1]
  ELSE parts[1] \o <<sep>> \o join(Tail(parts), sep)

\* str(n) for n >= 0
DigitChars == <<"0", "1", "2", "3", "4", "5", "6", "7", "8", "9">>

RECURSIVE Decimal(_)
Decimal(n) ==
  IF n < 10 THEN <<DigitChars[n + 1]>>
  ELSE Append(Decimal(n \div 10), DigitChars[(n % 10) + 1])

\* ------------------------------------------------------- textwrap.dedent
Blank == {" ", "\t"}

WhitespaceOnly(line) == \A k \in 1..Len(line) : line[k] \in Blank

\* length of the leading run of blanks
IndentLen(line) ==
  IF WhitespaceOnly(line) THEN Len(line)
  ELSE (CHOOSE k \in 1..Len(line) :
          line[k] \notin Blank /\ \A j \in 1..(k - 1) : line[j] \in Blank) - 1

StartsWith(s, p) == Len(p) <= Len(s) /\ SubSeq(s, 1, Len(p)) = p

\* the longest common prefix of the indents of the lines that have text
Margin(lines) ==
  LET indents == { Prefix(lines[k], IndentLen(lines[k])) :
                     k \in { j \in 1..Len(lines) : ~WhitespaceOnly(lines[j]) } }
      common(n) == \A a \in indents, b \in indents :
                      n <= Len(a) /\ Prefix(a, n) = Prefix(b, n)
  IN  IF indents = {} THEN <<>>
      ELSE LET a == CHOOSE x \in indents : TRUE
               n == CHOOSE m \in 0..Len(a) :
                      common(m) /\ \A m2 \in 0..Len(a) : common(m2) => m2 <= m
           IN  Prefix(a, n)

dedent(text) ==
  LET raw == split(text, "\n")
      lines == [k \in 1..Len(raw) |-> IF WhitespaceOnly(raw[k]) THEN <<>> ELSE raw[k]]
      margin == Margin(lines)
      cut(line) == IF Len(margin) > 0 /\ StartsWith(line, margin)
                   THEN SubSeq(line, Len(margin) + 1, Len(line))
                   ELSE line
  IN  join([k \in 1..Len(lines) |-> cut(lines[k])], "\n")

\* -------------------------------------------------- the discovery catalogue
\* items of the provider's answer: full_name, stargazers_count, description
\* (nullable), html_url
Names == { <<"a", "/", "x">>, <<"b", "/", "y">>, <<"c", "/", "z">> }

Item(n) ==
  CASE n = <<"a", "/", "x">> ->
         [full_name |-> n, stargazers_count |-> 500,
          description |-> Str(<<"d", "1">>), html_url |-> <<"u", "1">>]
    [] n = <<"b", "/", "y">> ->
         [full_name |-> n, stargazers_count |-> 300,
          description |-> Str(<<"d", "2">>), html_url |-> <<"u", "2">>]
    [] n = <<"l", "/", "d">> ->
         [full_name |-> n, stargazers_count |-> 220,
          description |-> Str([k \in 1..discord_limit |-> "d"]),
          html_url |-> <<"u", "4">>]
    [] OTHER ->
         [full_name |-> n, stargazers_count |-> 250,
          description |-> None, html_url |-> <<"u", "3">>]

Injective(f) == \A a, b \in DOMAIN f : f[a] = f[b] => a = b

\* every ordered list of distinct items the provider may answer with
ItemLists ==
  UNION { { [k \in 1..n |-> Item(f[k])] : f \in { g \in [1..n -> Names] : Injective(g) } }
          : n \in 0..Min(MaxItems, per_page) }

\* ------------------------------------------------------------ HTTP answers
\* conn = TRUE: the transport failed, there is no response
\* (requests.ConnectionError); otherwise status, body text, and the parsed
\* body when it is JSON.
Response(status, text, isJson, hasItems, items) ==
  [conn |-> FALSE, status |-> status, text |-> text,
   isJson |-> isJson, hasItems |-> hasItems, items |-> items]

NoResponse ==
  [conn |-> TRUE, status |-> 0, text |-> <<>>,
   isJson |-> FALSE, hasItems |-> FALSE, items |-> <<>>]

ErrBody == <<"e", "r", "r">>
ReadmeText == <<"R", "M">>

SearchResponses ==
  { Response(st, <<"j">>, TRUE, TRUE, l) : st \in {200, 202}, l \in ItemLists }
  \cup { Response(304, <<>>, FALSE, FALSE, <<>>) }
  \cup { Response(st, ErrBody, TRUE, FALSE, <<>>) : st \in {404, 500} }
  \cup { NoResponse }

DocResponses ==
  { Response(200, ReadmeText, FALSE, FALSE, <<>>),
    Response(200, <<>>, FALSE, FALSE, <<>>),
    Response(202, ReadmeText, FALSE, FALSE, <<>>),
    Response(304, <<>>, FALSE, FALSE, <<>>),
    Response(404, ErrBody, TRUE, FALSE, <<>>),
    Response(500, ErrBody, TRUE, FALSE, <<>>),
    NoResponse }

HookResponses ==
  { Response(st, <<>>, FALSE, FALSE, <<>>) : st \in {204} }
  \cup { Response(st, ErrBody, TRUE, FALSE, <<>>) : st \in {429, 500} }
  \cup { NoResponse }

\* answers of model.generate_content: raises, or a response whose .text is
\* None or a string
GenResponse(raises, text) == [raises |-> raises, text |-> text]

GenResponses ==
  { GenResponse(TRUE, None),
    GenResponse(FALSE, None),
    GenResponse(FALSE, Str(<<" ", "\n">>)),
    GenResponse(FALSE, Str(<<" ", "S", "\n">>)),
    GenResponse(FALSE, Str(<<"S", "\n", "T">>)) }

\* ------------------------------------------------------- results of a call
Raise(e) == [exc |-> e, value |-> None, items |-> <<>>]
ReturnText(v) == [exc |-> "", value |-> v, items |-> <<>>]
ReturnItems(l) == [exc |-> "", value |-> None, items |-> l]

\* requests.Response.raise_for_status: HTTPError for 4xx and 5xx only
raise_for_status(status) == status >= 400 /\ status < 600

github_request(resp, accept_raw) ==
  IF resp.conn THEN Raise("ConnectionError")
  ELSE IF resp.status # 200 /\ raise_for_status(resp.status) THEN Raise("HTTPError")
  ELSE IF accept_raw THEN ReturnText(Str(resp.text))
  ELSE IF ~resp.isJson THEN Raise("JSONDecodeError")
  ELSE [exc |-> "", value |-> IF resp.hasItems THEN Str(<<>>) ELSE None,
        items |-> resp.items]

\* data["items"]: the value field of a JSON result tells whether the key is
\* there
\* a search_repos that swallows a failed search and returns no items
search_repos_swallow(resp) ==
  LET data == github_request(resp, FALSE)
  IN  IF data.exc # "" \/ data.value.none THEN ReturnItems(<<>>)
      ELSE ReturnItems(data.items)

search_repos(resp) ==
  LET data == github_request(resp, FALSE)
  IN  IF data.exc # "" THEN data
      ELSE IF data.value.none THEN Raise("KeyError")
      ELSE ReturnItems(data.items)

fetch_readme(resp) ==
  LET r == github_request(resp, TRUE)
  IN  IF r.exc = "HTTPError" THEN ReturnText(None)
      ELSE r

\* fetch_readme(*full_name.split("/")): two positional parameters
FetchCall(full_name, resp) ==
  IF Len(split(full_name, "/")) # 2 THEN Raise("TypeError")
  ELSE fetch_readme(resp)

InputCutMarkerLen == 18
InputCutMarker ==
  <<"\n", ".", ".", ".", "\n", "(", "U+203B", "U+9577", "U+3044", "U+306E",
    "U+3067", "U+4E00", "U+90E8", "U+306E", "U+307F", "U+8981", "U+7D04", ")">>

\* a cut that starts at max_chars instead of above it
PromptReadme_from_limit(readme_text) ==
  IF Len(readme_text) >= max_chars
  THEN Prefix(readme_text, max_chars) \o InputCutMarker
  ELSE readme_text

\* the README text placed in the prompt
PromptReadme(readme_text) ==
  IF Len(readme_text) > max_chars
  THEN Prefix(readme_text, max_chars) \o InputCutMarker
  ELSE readme_text

\* the prompt: its two fields, the fixed instruction text around them is
\* left out
Prompt(full_name, readme_text) ==
  [full_name |-> full_name, readme |-> PromptReadme(readme_text)]

\* a summarize_with_gemini that rejects an empty summary
summarize_with_gemini_nonempty(readme, gen) ==
  IF readme.none THEN Raise("TypeError")
  ELSE IF gen.raises THEN Raise("GenerativeError")
  ELSE IF Len(strip(OrEmpty(gen.text))) = 0 THEN Raise("ValueError")
  ELSE ReturnText(Str(strip(OrEmpty(gen.text))))

summarize_with_gemini(readme, gen) ==
  IF readme.none THEN Raise("TypeError")
  ELSE IF gen.raises THEN Raise("GenerativeError")
  ELSE ReturnText(Str(strip(OrEmpty(gen.text))))

\* the message template of main; the characters outside ASCII are written
\* by their code points, one element each
Indent8 == <<" ", " ", " ", " ", " ", " ", " ", " ">>
RankLabel == <<"U+1F3C5", " ", "U+30E9", "U+30F3", "U+30AF", " ">>
NameLabel == <<"U+1F4D8", " ", "*", "*">>
StarsLabel == <<"U+2B50", " ", "S", "t", "a", "r", "s", ":", " ">>
UrlLabel == <<"U+1F517", " ">>
DescLabel == <<"U+1F4DD", " ", "U+8AAC", "U+660E", ":">>
SummaryLabel ==
  <<"U+1F9E0", " ", "R", "E", "A", "D", "M", "E", " ", "U+8981", "U+7D04", " ",
    "(", "G", "e", "m", "i", "n", "i", ")", ":">>

Template(rank, full_name, stars, url, desc, summary) ==
  <<"\n">> \o Indent8 \o RankLabel \o Decimal(rank) \o <<"\n", "\n">>
  \o Indent8 \o NameLabel \o full_name \o <<"*", "*", "\n">>
  \o Indent8 \o StarsLabel \o Decimal(stars) \o <<"\n">>
  \o Indent8 \o UrlLabel \o url \o <<"\n", "\n">>
  \o Indent8 \o DescLabel \o <<"\n">>
  \o Indent8 \o desc \o <<"\n", "\n">>
  \o Indent8 \o SummaryLabel \o <<"\n">>
  \o Indent8 \o summary \o <<"\n">>
  \o Indent8

\* a message composed without the summary
Compose_no_summary(rank, repo, summary) ==
  strip(dedent(Template(rank, repo.full_name, repo.stargazers_count,
                        repo.html_url, OrEmpty(repo.description), <<>>)))

\* textwrap.dedent(f"""...""").strip()
Compose(rank, repo, summary) ==
  strip(dedent(Template(rank, repo.full_name, repo.stargazers_count,
                        repo.html_url, OrEmpty(repo.description), summary)))

OutputCutMarkerLen == 15
OutputCutMarker ==
  <<"\n", ".", ".", ".", "(", "U+6587", "U+5B57", "U+6570", "U+5236", "U+9650",
    "U+3067", "U+30AB", "U+30C3", "U+30C8", ")">>

\* a cut that starts at discord_limit instead of above it
PayloadContent_from_limit(content) ==
  IF Len(content) >= discord_limit
  THEN Prefix(content, discord_limit) \o OutputCutMarker
  ELSE content

\* a payload that is never cut
PayloadContent_uncut(content) == content

\* the content of the payload
PayloadContent(content) ==
  IF Len(content) > discord_limit
  THEN Prefix(content, discord_limit) \o OutputCutMarker
  ELSE content

\* a send_to_discord that calls raise_for_status on the webhook's answer
send_to_discord_raising(resp) ==
  IF resp.conn THEN Raise("ConnectionError")
  ELSE IF raise_for_status(resp.status) THEN Raise("HTTPError")
  ELSE ReturnText(None)

\* send_to_discord: a status >= 300 is printed, nothing is raised
send_to_discord(resp) ==
  IF resp.conn THEN Raise("ConnectionError")
  ELSE ReturnText(None)

\* the rank written in the first line of a message
RECURSIVE ParseDecimal(_, _, _)
ParseDecimal(s, k, acc) ==
  IF k <= Len(s) /\ \E d \in 1..10 : DigitChars[d] = s[k]
  THEN ParseDecimal(s, k + 1, 10 * acc + ((CHOOSE d \in 1..10 : DigitChars[d] = s[k]) - 1))
  ELSE acc

RankIn(content) ==
  IF StartsWith(content, RankLabel)
  THEN ParseDecimal(content, Len(RankLabel) + 1, 0)
  ELSE -1

\* ------------------------------------------- inputs around the two limits
\* a result list with a candidate whose description alone fills the
\* delivery limit
LongNames == { <<"a", "/", "x">>, <<"l", "/", "d">> }

LongItemLists ==
  UNION { { [k \in 1..n |-> Item(f[k])] : f \in { g \in [1..n -> LongNames] : Injective(g) } }
          : n \in 0..TOP_N }

LongSearchResponses == { Response(200, <<"j">>, TRUE, TRUE, l) : l \in LongItemLists }

\* READMEs of max_chars and max_chars + 1 characters; the last character
\* of the longer one differs from the others
ReadmeOfLen(n) == [k \in 1..n |-> IF k <= max_chars THEN "r" ELSE "z"]

LongDocResponses ==
  { Response(200, ReadmeText, FALSE, FALSE, <<>>),
    Response(200, ReadmeOfLen(max_chars), FALSE, FALSE, <<>>),
    Response(200, ReadmeOfLen(max_chars + 1), FALSE, FALSE, <<>>) }

\* the characters of a message around a one-line summary, for the
\* candidate a/x at a one-digit rank
MessageOverhead == Len(Compose(1, Item(<<"a", "/", "x">>), <<"x">>)) - 1

\* summaries that make such a message exactly discord_limit and
\* discord_limit + 1 characters long, and one with a line of blanks
SummaryOfLen(n) == [k \in 1..n |-> "x"]

LongGenResponses ==
  { GenResponse(FALSE, Str(<<" ", "S", "\n">>)),
    GenResponse(FALSE, Str(<<"S", "\n", " ", "\n", "T">>)),
    GenResponse(FALSE, Str(SummaryOfLen(discord_limit - MessageOverhead))),
    GenResponse(FALSE, Str(SummaryOfLen(discord_limit - MessageOverhead + 1))) }

\* a loop over the whole result list: repos instead of repos[:TOP_N]
Slice_whole(repos) == repos

\* a loop over the slice in reverse order
Slice_reversed(repos) ==
  LET n == Min(TOP_N, Len(repos))
  IN  [k \in 1..n |-> repos[n + 1 - k]]

\* repos[:TOP_N]
Slice(repos) == SubSeq(repos, 1, Min(TOP_N, Len(repos)))

\* enumerate without its start argument: ranks from 0
enumerate_from_zero(seq, start) ==
  [k \in 1..Len(seq) |-> [rank |-> k - 1, repo |-> seq[k]]]

\* a rank that counts from the back of the list
enumerate_backwards(seq, start) ==
  [k \in 1..Len(seq) |-> [rank |-> start + (Len(seq) - k), repo |-> seq[k]]]

\* enumerate(seq, start): the pairs (rank, repo) of the loop
enumerate(seq, start) ==
  [k \in 1..Len(seq) |-> [rank |-> start + (k - 1), repo |-> seq[k]]]

\* a loop without the "if not readme" test
Skip_never(readme) == FALSE

\* "if not readme: continue"
Skip(readme) == ~Truthy(readme)

\* ------------------------------------------------------------------- state
VARIABLES
  pc,         \* position of main: Searching, Fetching, Summarizing,
              \* Delivering, Done, Aborted (an exception left main)
  error,      \* the exception that left main, "" if none
  repos,      \* search_repos' return value
  i,          \* position of the loop in repos[:TOP_N] (1-based)
  readme,     \* fetch_readme's return value for the current candidate
  message,    \* the composed message of the current candidate
  calls,      \* the remote calls made so far, in order
  sent,       \* the payloads posted to the webhook, in order
  prompts,    \* the prompts given to the generative service, in order
  searchResp, \* the discovery provider's answer
  docResp,    \* the documentation provider's answer, per position
  genResp     \* the generative service's answer, per position

vars == <<pc, error, repos, i, readme, message, calls, sent, prompts,
          searchResp, docResp, genResp>>
env == <<searchResp, docResp, genResp>>

Payload(content) == [content |-> content, username |-> "rikochi_repo"]

Call(op, pos, name, out, status) ==
  [op |-> op, pos |-> pos, name |-> name, out |-> out, status |-> status]

Loop == enumerate(Slice(repos), 1)

\* Positions the loop never reaches get a fixed answer: only the answers
\* for the slice can matter to a run.
Init ==
  /\ pc = "Searching"
  /\ error = ""
  /\ repos = <<>>
  /\ i = 0
  /\ readme = None
  /\ message = <<>>
  /\ calls = <<>>
  /\ sent = <<>>
  /\ prompts = <<>>
  /\ searchResp \in SearchResponses
  /\ docResp \in { f \in [1..MaxItems -> DocResponses] :
                     \A k \in 1..MaxItems :
                        k > TOP_N => f[k] = Response(200, ReadmeText, FALSE, FALSE, <<>>) }
  /\ genResp \in { f \in [1..MaxItems -> GenResponses] :
                     \A k \in 1..MaxItems :
                        k > TOP_N => f[k] = GenResponse(FALSE, Str(<<" ", "S", "\n">>)) }

\* the same program, started with answers around the two length limits
InitLong ==
  /\ pc = "Searching"
  /\ error = ""
  /\ repos = <<>>
  /\ i = 0
  /\ readme = None
  /\ message = <<>>
  /\ calls = <<>>
  /\ sent = <<>>
  /\ prompts = <<>>
  /\ searchResp \in LongSearchResponses
  /\ docResp \in { f \in [1..MaxItems -> LongDocResponses] :
                     \A k \in 1..MaxItems :
                        k > TOP_N => f[k] = Response(200, ReadmeText, FALSE, FALSE, <<>>) }
  /\ genResp \in { f \in [1..MaxItems -> LongGenResponses] :
                     \A k \in 1..MaxItems :
                        k > TOP_N => f[k] = GenResponse(FALSE, Str(<<" ", "S", "\n">>)) }

\* a loop that delivers again after a failed delivery
Advance_retry(n, list) ==
  IF n >= 1 /\ calls'[Len(calls')].out = "fail"
  THEN /\ pc' = "Delivering"
       /\ i' = n
  ELSE IF n + 1 <= Len(enumerate(Slice(list), 1))
  THEN /\ pc' = "Fetching"
       /\ i' = n + 1
  ELSE /\ pc' = "Done"
       /\ i' = n

\* the loop header: next candidate, or the end of main
Advance(n, list) ==
  IF n + 1 <= Len(enumerate(Slice(list), 1))
  THEN /\ pc' = "Fetching"
       /\ i' = n + 1
  ELSE /\ pc' = "Done"
       /\ i' = n

Abort(e) ==
  /\ pc' = "Aborted"
  /\ error' = e

\* main, line 141
Search ==
  /\ pc = "Searching"
  /\ LET r == search_repos(searchResp)
     IN  /\ calls' = Append(calls, Call("search", 0, <<>>,
                        IF r.exc = "" THEN "ok" ELSE "raise",
                        IF searchResp.conn THEN 0 ELSE searchResp.status))
         /\ IF r.exc # ""
            THEN /\ Abort(r.exc)
                 /\ UNCHANGED <<repos, i>>
            ELSE /\ repos' = r.items
                 /\ error' = error
                 /\ Advance(0, r.items)
  /\ UNCHANGED <<readme, message, sent, prompts, env>>

\* main, lines 144-155
Fetch ==
  /\ pc = "Fetching"
  /\ LET r == FetchCall(Loop[i].repo.full_name, docResp[i])
         name == Loop[i].repo.full_name
     IN  /\ calls' = IF r.exc = "TypeError" THEN calls
                     ELSE Append(calls, Call("fetch", i, name,
                        IF r.exc # "" THEN "raise"
                        ELSE IF r.value.none THEN "None"
                        ELSE IF Len(r.value.text) = 0 THEN "empty" ELSE "text",
                        IF docResp[i].conn THEN 0 ELSE docResp[i].status))
         /\ IF r.exc # ""
            THEN /\ Abort(r.exc)
                 /\ UNCHANGED <<i, readme>>
            ELSE /\ readme' = r.value
                 /\ error' = error
                 /\ IF Skip(r.value)
                    THEN Advance(i, repos)
                    ELSE /\ pc' = "Summarizing"
                         /\ i' = i
  /\ UNCHANGED <<repos, message, sent, prompts, env>>

\* main, lines 157-172
Summarize ==
  /\ pc = "Summarizing"
  /\ LET r == summarize_with_gemini(readme, genResp[i])
         name == Loop[i].repo.full_name
     IN  /\ calls' = IF r.exc = "TypeError" THEN calls
                     ELSE Append(calls, Call("generate", i, name,
                            IF r.exc # "" THEN "raise" ELSE "ok", 0))
         /\ prompts' = IF r.exc = "TypeError" THEN prompts
                       ELSE Append(prompts, Prompt(name, readme.text))
         /\ IF r.exc # ""
            THEN /\ Abort(r.exc)
                 /\ UNCHANGED message
            ELSE /\ message' = Compose(Loop[i].rank, Loop[i].repo, r.value.text)
                 /\ pc' = "Delivering"
                 /\ error' = error
  /\ UNCHANGED <<repos, i, readme, sent, env>>

\* main, line 174
Deliver ==
  /\ pc = "Delivering"
  /\ \E resp \in HookResponses :
       LET r == send_to_discord(resp)
       IN  /\ calls' = Append(calls, Call("post", i, Loop[i].repo.full_name,
                          IF r.exc # "" THEN "raise"
                          ELSE IF resp.status >= 300 THEN "fail" ELSE "ok",
                          IF resp.conn THEN 0 ELSE resp.status))
           /\ IF r.exc # ""
              THEN /\ Abort(r.exc)
                   /\ UNCHANGED <<i, sent>>
              ELSE /\ sent' = Append(sent, Payload(PayloadContent(message)))
                   /\ error' = error
                   /\ Advance(i, repos)
  /\ UNCHANGED <<repos, readme, message, prompts, env>>

Next == Search \/ Fetch \/ Summarize \/ Deliver

Spec == Init /\ [][Next]_vars

SpecLong == InitLong /\ [][Next]_vars

\* ===================================================================
\* Properties
\* ===================================================================
Terminated == pc \in {"Done", "Aborted"}
SearchOK == Len(calls) >= 1 /\ calls[1].op = "search" /\ calls[1].out = "ok"
SliceLen == Min(TOP_N, Len(repos))

\* indices in calls of the calls of one kind for one position of the loop
CallsOf(op, pos) == { k \in 1..Len(calls) : calls[k].op = op /\ calls[k].pos = pos }
Posts == { k \in 1..Len(calls) : calls[k].op = "post" }

\* the documentation provider's answer for position j is a text that main
\* goes on with
DocFound(j) ==
  LET r == fetch_readme(docResp[j])
  IN  r.exc = "" /\ Truthy(r.value)

\* the orchestrator stands at the candidate after position p, or is done
\* when p was the last one
AtNextCandidate(p) ==
  \/ pc = "Fetching" /\ i = p + 1
  \/ pc = "Done" /\ p = SliceLen

\* call k is the last call and the loop stands behind it, or the call after
\* it is the fetch of the next candidate
ContinuesAfter(k) ==
  IF k = Len(calls)
  THEN AtNextCandidate(calls[k].pos)
  ELSE calls[k + 1].op = "fetch" /\ calls[k + 1].pos = calls[k].pos + 1

\* the message carries the identifier of candidate n in its title line
Carries(content, n) ==
  LET title == NameLabel \o n \o <<"*", "*">>
  IN  \E k \in 1..Len(content) :
        k + Len(title) - 1 <= Len(content)
        /\ SubSeq(content, k, k + Len(title) - 1) = title

\* C1: when the run has ended after a successful discovery and the
\* generative call of candidate a raised, every later candidate j of the
\* slice whose documentation is found and whose generative call succeeds
\* has had its message delivered.
C1_SummarizationFailureIsolated ==
  (Terminated /\ SearchOK) =>
    \A a \in 1..SliceLen, j \in 1..SliceLen :
      ( /\ a < j
        /\ \E k \in CallsOf("generate", a) : calls[k].out = "raise"
        /\ DocFound(j)
        /\ ~genResp[j].raises )
      => CallsOf("post", j) # {}

\* C2: a run whose discovery succeeded ends in Done, with every candidate
\* of the slice fetched (and then delivered, skipped or failed).
C2_RunCompletes ==
  (Terminated /\ SearchOK) =>
    /\ pc = "Done"
    /\ \A j \in 1..SliceLen : CallsOf("fetch", j) # {}

\* C3: after a fetch that yielded None there is no generative call and no
\* delivery for that candidate, and the orchestrator goes on to the fetch
\* of the next candidate, or to Done after the last one.
C3_SkipOnAbsent ==
  \A k \in 1..Len(calls) :
    (calls[k].op = "fetch" /\ calls[k].out = "None") =>
      /\ CallsOf("generate", calls[k].pos) = {}
      /\ CallsOf("post", calls[k].pos) = {}
      /\ ContinuesAfter(k)

C3_Witness ==
  \E k \in 1..Len(calls) :
    /\ calls[k].op = "fetch" /\ calls[k].out = "None"
    /\ k < Len(calls)
    /\ calls[Len(calls)].op = "post"

\* C4: every answer of the documentation provider with a status other
\* than 200 makes fetch_readme return None, and a text is returned only
\* for status 200.
C4_FetchFailureMapping ==
  \A k \in 1..Len(calls) :
    (calls[k].op = "fetch" /\ calls[k].status # 0) =>
      /\ calls[k].status # 200 => calls[k].out = "None"
      /\ calls[k].out \in {"text", "empty"} => calls[k].status = 200

C6_DeliveryFailureNonFatal ==
  \A k \in Posts :
    (calls[k].status # 0 /\ calls[k].status \notin 200..299) =>
      /\ calls[k].out = "fail"
      /\ CallsOf("post", calls[k].pos) = {k}
      /\ ContinuesAfter(k)

C6_Witness ==
  \E k \in Posts :
    /\ calls[k].out = "fail"
    /\ k < Len(calls)
    /\ calls[Len(calls)].op = "post"
    /\ calls[Len(calls)].out = "ok"

\* C7: the number of delivery attempts is at most TOP_N and at most the
\* number of candidates of the slice whose fetch returned a text.
C7_BoundedDeliveries ==
  /\ TOP_N <= per_page
  /\ Cardinality(Posts) <= TOP_N
  /\ Cardinality(Posts) <=
       Cardinality({ j \in 1..SliceLen :
                       \E k \in CallsOf("fetch", j) : calls[k].out \in {"text", "empty"} })

C7_Witness ==
  /\ Cardinality(Posts) = TOP_N
  /\ Len(repos) > TOP_N
  /\ pc = "Done"

\* stages of one candidate, in order
StageNo(op) ==
  CASE op = "fetch" -> 1
    [] op = "generate" -> 2
    [] op = "post" -> 3
    [] OTHER -> 0

\* C8: the search is the first call; after it the calls go through the
\* candidates in the order of the discovery result, one candidate at a
\* time, each through fetch, generate, post; deliveries are in strictly
\* increasing rank order.
C8_SequentialRankOrder ==
  /\ \A k \in 1..Len(calls) : (calls[k].op = "search") <=> (k = 1)
  /\ \A k \in 2..Len(calls) :
       /\ calls[k].pos \in 1..SliceLen
       /\ calls[k].name = repos[calls[k].pos].full_name
  /\ \A a \in 2..Len(calls), b \in 2..Len(calls) :
       a < b =>
         \/ calls[a].pos < calls[b].pos
         \/ calls[a].pos = calls[b].pos /\ StageNo(calls[a].op) < StageNo(calls[b].op)
  /\ \A m \in 1..Len(sent), n \in 1..Len(sent) :
       m < n => RankIn(sent[m].content) < RankIn(sent[n].content)

C8_Witness ==
  /\ Len(sent) = 2
  /\ Len(calls) = 7
  /\ repos[1].full_name = <<"c", "/", "z">>
  /\ repos[2].full_name = <<"a", "/", "x">>

\* the candidates of the slice before position p for which no message was
\* delivered
Undelivered(p) == { q \in 1..(p - 1) : \A k \in CallsOf("post", q) : calls[k].out = "raise" }

\* C9 as stated: the ranks of the messages, in delivery order, are
\* 1, 2, ..., k.
C9_RanksContiguous ==
  \A m \in 1..Len(sent) : RankIn(sent[m].content) = m

\* C9 amended: the ranks of the messages, in delivery order, are 1-based
\* and strictly increasing, and the rank of the m-th message is m plus the
\* number of earlier candidates of the slice that had no delivery.
C9_RanksCountSkipped ==
  \A m \in 1..Len(sent) :
    /\ RankIn(sent[m].content) >= 1
    /\ \A n \in 1..(m - 1) : RankIn(sent[n].content) < RankIn(sent[m].content)
    /\ \E p \in 1..Len(repos) :
         /\ Carries(sent[m].content, repos[p].full_name)
         /\ RankIn(sent[m].content) = m + Cardinality(Undelivered(p))

C9_Witness ==
  /\ Len(sent) = 1
  /\ RankIn(sent[1].content) = 2
  /\ \E k \in CallsOf("fetch", 1) : calls[k].out = "empty"

\* C10: the rank in a message is the 1-based position of its candidate in
\* repos[:TOP_N], whatever happened to the candidates before it.
C10_RankIsSlicePosition ==
  \A m \in 1..Len(sent) :
    /\ RankIn(sent[m].content) \in 1..SliceLen
    /\ Carries(sent[m].content, repos[RankIn(sent[m].content)].full_name)
    /\ \A n \in Names :
         Carries(sent[m].content, n) => n = repos[RankIn(sent[m].content)].full_name

C10_Witness ==
  /\ Len(sent) = 1
  /\ RankIn(sent[1].content) = 2
  /\ Carries(sent[1].content, repos[2].full_name)
  /\ \E k \in CallsOf("fetch", 1) : calls[k].out = "None"

\* part occurs in content
Contains(content, part) ==
  \E k \in 0..(Len(content) - Len(part)) :
    SubSeq(content, k + 1, k + Len(part)) = part

\* part stands in content right under its label, indented or not; an empty
\* part only needs its label
InBlock(content, label, part) ==
  \/ Len(part) = 0 /\ Contains(content, label)
  \/ Contains(content, label \o <<"\n">> \o part)
  \/ Contains(content, label \o <<"\n">> \o Indent8 \o part)

\* the value summarize_with_gemini returns for position j
SummaryAt(j) == strip(OrEmpty(genResp[j].text))

\* no line of the text begins with a blank
NoIndentedLine(t) ==
  \A k \in 1..Len(t) : t[k] \in Blank => (k > 1 /\ t[k - 1] # "\n")

\* the run ended with discovery, every fetch, every generative call and
\* every delivery of the slice successful
HappyRun ==
  /\ pc = "Done"
  /\ SearchOK
  /\ \A j \in 1..SliceLen : DocFound(j) /\ ~genResp[j].raises
  /\ \A k \in Posts : calls[k].out = "ok"

\* content holds rank m and the fields and summary of the m-th candidate
HasOwnFields(content, m) ==
  /\ StartsWith(content, RankLabel \o Decimal(m) \o <<"\n">>)
  /\ Carries(content, repos[m].full_name)
  /\ Contains(content, StarsLabel \o Decimal(repos[m].stargazers_count) \o <<"\n">>)
  /\ Contains(content, UrlLabel \o repos[m].html_url \o <<"\n">>)
  /\ InBlock(content, DescLabel, OrEmpty(repos[m].description) \o <<"\n">>)
  /\ InBlock(content, SummaryLabel, SummaryAt(m))
  /\ Len(content) >= Len(SummaryAt(m))
  /\ SubSeq(content, Len(content) - Len(SummaryAt(m)) + 1, Len(content)) = SummaryAt(m)

\* content holds no identifier or link of another candidate
NoForeignField(content, m) ==
  \A q \in 1..Len(repos) :
    q # m => /\ ~Carries(content, repos[q].full_name)
             /\ ~Contains(content, UrlLabel \o repos[q].html_url \o <<"\n">>)

JustDelivered ==
  /\ Len(calls) >= 1
  /\ calls[Len(calls)].op = "post"
  /\ calls[Len(calls)].out # "raise"

\* C12: a message of at most discord_limit characters is sent unchanged,
\* without the cut marker; a longer one is sent as its first discord_limit
\* characters followed by the cut marker.
C12_OutputTruncation ==
  JustDelivered =>
    LET content == sent[Len(sent)].content
    IN  /\ Len(message) <= discord_limit =>
             /\ content = message
             /\ ~Contains(content, OutputCutMarker)
        /\ Len(message) > discord_limit =>
             /\ Len(content) = discord_limit + Len(OutputCutMarker)
             /\ SubSeq(content, 1, discord_limit) = SubSeq(message, 1, discord_limit)
             /\ SubSeq(content, discord_limit + 1, Len(content)) = OutputCutMarker

C12_Witness ==
  /\ JustDelivered
  /\ Len(sent) = 2
  /\ Len(sent[1].content) = discord_limit
  /\ Len(message) > discord_limit
  /\ Len(sent[2].content) = discord_limit + Len(OutputCutMarker)

\* the last call is a generative call: readme is still the text it was
\* made for
JustGenerated ==
  /\ Len(calls) >= 1
  /\ calls[Len(calls)].op = "generate"

\* C13: a README of more than max_chars characters is put in the prompt as
\* its first max_chars characters followed by the truncation marker; a
\* README of at most max_chars characters is put in unchanged, without the
\* marker.
C13_InputTruncation ==
  JustGenerated =>
    LET text == docResp[i].text
        inPrompt == prompts[Len(prompts)].readme
    IN  /\ readme.text = text
        /\ Len(text) > max_chars =>
             /\ Len(inPrompt) = max_chars + Len(InputCutMarker)
             /\ SubSeq(inPrompt, 1, max_chars) = SubSeq(text, 1, max_chars)
             /\ SubSeq(inPrompt, max_chars + 1, Len(inPrompt)) = InputCutMarker
        /\ Len(text) <= max_chars =>
             /\ inPrompt = text
             /\ ~Contains(inPrompt, InputCutMarker)

C13_Witness ==
  /\ JustGenerated
  /\ Len(prompts) = 2
  /\ Len(docResp[1].text) = max_chars
  /\ Len(docResp[2].text) = max_chars + 1
  /\ i = 2

\* after fetch call k the orchestrator is in, or has gone through, the
\* summarization of the same candidate
ProceedsToSummarizing(k) ==
  IF k = Len(calls)
  THEN pc = "Summarizing" /\ i = calls[k].pos
  ELSE calls[k + 1].op = "generate" /\ calls[k + 1].pos = calls[k].pos

\* C14: a candidate is skipped only when its fetch yielded None; a fetch
\* that returned a text, the empty text included, is followed by the
\* summarization of that candidate.
C14_AbsentDistinctFromEmpty ==
  \A k \in 1..Len(calls) :
    (calls[k].op = "fetch" /\ calls[k].out # "raise") =>
      /\ ContinuesAfter(k) => calls[k].out = "None"
      /\ calls[k].out \in {"text", "empty"} => ProceedsToSummarizing(k)

\* C15: no call is ever made for a candidate behind position TOP_N of the
\* discovery result, and at most TOP_N candidates are fetched, also when
\* candidates of the slice were skipped or failed.
C15_NoBackfill ==
  /\ \A k \in 2..Len(calls), q \in 1..Len(repos) :
       calls[k].name = repos[q].full_name => q <= TOP_N
  /\ Cardinality({ k \in 1..Len(calls) : calls[k].op = "fetch" }) <= TOP_N

C15_Witness ==
  /\ pc = "Done"
  /\ Len(repos) = 3
  /\ Len(calls) = 3
  /\ calls[2].out = "None"
  /\ calls[3].out = "empty"
  /\ sent = <<>>

\* C16: one search, made first; for each candidate at most one fetch, one
\* generative call and one delivery; a generative call only after that
\* candidate's fetch returned a text, a delivery only after its generative
\* call returned.
C16_AtMostOnceNoRetry ==
  /\ \A k \in 1..Len(calls) : (calls[k].op = "search") <=> (k = 1)
  /\ pc # "Searching" => Len(calls) >= 1
  /\ \A n \in Names, op \in {"fetch", "generate", "post"} :
       Cardinality({ k \in 1..Len(calls) : calls[k].op = op /\ calls[k].name = n }) <= 1
  /\ \A k \in 1..Len(calls) :
       /\ calls[k].op = "generate" =>
            \E j \in 1..(k - 1) :
              /\ calls[j].op = "fetch"
              /\ calls[j].name = calls[k].name
              /\ calls[j].out = "text"
       /\ calls[k].op = "post" =>
            \E j \in 1..(k - 1) :
              /\ calls[j].op = "generate"
              /\ calls[j].name = calls[k].name
              /\ calls[j].out = "ok"

C16_Witness ==
  /\ pc = "Done"
  /\ Len(calls) = 7
  /\ calls[3].op = "generate" /\ calls[3].out = "ok"
  /\ calls[4].op = "post" /\ calls[4].out = "fail"
  /\ calls[7].op = "post" /\ calls[7].out = "ok"

\* the generated text of position p is missing or only whitespace
EmptyGenerated(p) ==
  /\ ~genResp[p].raises
  /\ \/ genResp[p].text.none
     \/ \A k \in 1..Len(genResp[p].text.text) : genResp[p].text.text[k] \in Whitespace

\* C17: a generative call that returned no text or only whitespace does
\* not raise; the message is composed with an empty summary and its
\* delivery is attempted.
C17_EmptySummaryIsSuccess ==
  \A k \in 1..Len(calls) :
    (calls[k].op = "generate" /\ EmptyGenerated(calls[k].pos)) =>
      /\ calls[k].out = "ok"
      /\ IF k = Len(calls)
         THEN /\ pc = "Delivering"
              /\ i = calls[k].pos
              /\ Len(message) >= Len(SummaryLabel)
              /\ SubSeq(message, Len(message) - Len(SummaryLabel) + 1, Len(message))
                   = SummaryLabel
         ELSE /\ calls[k + 1].op = "post"
              /\ calls[k + 1].pos = calls[k].pos

C17_Witness ==
  \E k \in 1..Len(calls) :
    /\ calls[k].op = "generate"
    /\ EmptyGenerated(calls[k].pos)
    /\ ~genResp[calls[k].pos].text.none
    /\ k < Len(calls)
    /\ calls[k + 1].op = "post"
    /\ calls[k + 1].out = "ok"

\* C18: every content sent to the webhook has at most discord_limit
\* characters plus the cut marker, which is fewer than 2000.
C18_PayloadLengthBound ==
  /\ Len(OutputCutMarker) = OutputCutMarkerLen
  /\ \A m \in 1..Len(sent) :
       /\ Len(sent[m].content) <= discord_limit + OutputCutMarkerLen
       /\ Len(sent[m].content) < 2000

C18_Witness ==
  \E m \in 1..Len(sent) :
    /\ Len(sent[m].content) = discord_limit + OutputCutMarkerLen
    /\ Carries(sent[m].content, <<"l", "/", "d">>)
    /\ ~Contains(sent[m].content, SummaryLabel)

====
